---- MODULE Spec2Model ----
(***************************************************************************)
(* A model of the stack machine of src/src/lib.rs: the operand stack, the  *)
(* linear memory, the function table and the recursion of execute / call.  *)
(* f64 values are modelled by their IEEE-754 binary64 fields, so that      *)
(* arithmetic, the byte conversions and the cast to usize are computed     *)
(* rather than assumed.                                                    *)
(***************************************************************************)
EXTENDS Integers, Sequences, FiniteSets, TLC

(***************************************************************************)
(* Bounds of the model.                                                    *)
(***************************************************************************)
\* mem_size handed to Machine::new
MemSize == 24
\* host operations (store / push) that seed a machine before its run
MaxSeeds == 2
\* longest Const / Add / Mul program enumerated exhaustively
MaxArithLen == 4
\* activations of execute the native stack holds
MaxDepth == 3

(***************************************************************************)
(* f64.  A value is [s, e, m]: the sign bit, the 11-bit biased exponent,   *)
(* and the 52-bit fraction as 13 hexadecimal digits, most significant      *)
(* first.                                                                  *)
(***************************************************************************)
F64(s, e, m) == [s |-> s, e |-> e, m |-> m]

ZeroFrac == [j \in 1..13 |-> 0]

FZero(s) == F64(s, 0, ZeroFrac)

FInf(s) == F64(s, 2047, ZeroFrac)

\* the result of an operation this model does not compute (NaN, infinite or
\* subnormal operands, a subnormal result); steps that would need it are
\* not explored
Unmodelled == F64(0, -1, <<>>)

IsZero(v) == v.e = 0 /\ v.m = ZeroFrac

IsNormal(v) == v.e \in 1..2046

\* natural numbers of any size: hexadecimal digits, least significant first
RECURSIVE Propagate(_, _, _)
Propagate(cols, k, carry) ==
    IF k > Len(cols) THEN <<>>
    ELSE LET t == cols[k] + carry
         IN <<t % 16>> \o Propagate(cols, k + 1, t \div 16)

Digit(x, k) == IF k >= 1 /\ k <= Len(x) THEN x[k] ELSE 0

BigAdd(x, y) ==
    LET n == (IF Len(x) > Len(y) THEN Len(x) ELSE Len(y)) + 1
    IN Propagate([k \in 1..n |-> Digit(x, k) + Digit(y, k)], 1, 0)

\* x - y, for x >= y
BigSub(x, y) ==
    Propagate([k \in 1..Len(x) |-> Digit(x, k) - Digit(y, k)], 1, 0)

RECURSIVE ColSum(_, _, _, _)
ColSum(x, y, k, i) ==
    IF i > Len(x) \/ i > k THEN 0
    ELSE Digit(x, i) * Digit(y, k + 1 - i) + ColSum(x, y, k, i + 1)

BigMul(x, y) ==
    Propagate([k \in 1..(Len(x) + Len(y)) |-> ColSum(x, y, k, 1)], 1, 0)

\* x * 2^d
BigShl(x, d) ==
    [k \in 1..(d \div 4) |-> 0]
        \o Propagate([k \in 1..(Len(x) + 1) |-> Digit(x, k) * 2^(d % 4)], 1, 0)

\* bit i of x, bit 1 the least significant
Bit(x, i) ==
    IF i < 1 THEN 0 ELSE (Digit(x, ((i - 1) \div 4) + 1) \div 2^((i - 1) % 4)) % 2

RECURSIVE TopDigit(_, _)
TopDigit(x, k) ==
    IF k = 0 THEN 0 ELSE IF x[k] # 0 THEN k ELSE TopDigit(x, k - 1)

BitLen(x) ==
    LET k == TopDigit(x, Len(x))
    IN IF k = 0 THEN 0
       ELSE 4 * (k - 1)
            + (IF x[k] >= 8 THEN 4 ELSE IF x[k] >= 4 THEN 3 ELSE IF x[k] >= 2 THEN 2 ELSE 1)

\* the 53-bit significand of a normal value, as a natural number
Significand(v) == [k \in 1..14 |-> IF k = 14 THEN 1 ELSE v.m[14 - k]]

\* the f64 nearest to (-1)^s * x * 2^q, ties to even
RoundPack(s, x, q) ==
    LET L == BitLen(x)
        sh == L - 53
        sb == [i \in 1..53 |-> Bit(x, i + sh)]
        round == Bit(x, sh) = 1
        sticky == \E i \in 1..(sh - 1) : Bit(x, i) = 1
        inc == round /\ (sticky \/ sb[1] = 1)
        allOnes == \A i \in 1..53 : sb[i] = 1
        z == CHOOSE i \in 1..53 : sb[i] = 0 /\ \A j \in 1..(i - 1) : sb[j] = 1
        rb == [i \in 1..53 |->
                 IF ~inc THEN sb[i]
                 ELSE IF allOnes THEN (IF i = 53 THEN 1 ELSE 0)
                 ELSE IF i < z THEN 0
                 ELSE IF i = z THEN 1
                 ELSE sb[i]]
        e == q + L - 1 + (IF inc /\ allOnes THEN 1 ELSE 0) + 1023
        m == [j \in 1..13 |->
                 rb[49 - 4 * (j - 1)] + 2 * rb[50 - 4 * (j - 1)]
                 + 4 * rb[51 - 4 * (j - 1)] + 8 * rb[52 - 4 * (j - 1)]]
    IN IF L = 0 THEN FZero(s)
       ELSE IF e >= 2047 THEN FInf(s)
       ELSE IF e <= 0 THEN Unmodelled
       ELSE F64(s, e, m)

\* |a| >= |b| for normal a, b
MagnitudeGeq(a, b) ==
    \/ a.e > b.e
    \/ /\ a.e = b.e
       /\ \/ a.m = b.m
          \/ LET i == CHOOSE i \in 1..13 :
                        a.m[i] # b.m[i] /\ \A j \in 1..(i - 1) : a.m[j] = b.m[j]
             IN a.m[i] > b.m[i]

\* left + right of f64 (round to nearest, ties to even)
FAdd(a, b) ==
    IF ~(IsZero(a) \/ IsNormal(a)) \/ ~(IsZero(b) \/ IsNormal(b)) THEN Unmodelled
    ELSE IF IsZero(a) /\ IsZero(b) THEN FZero(IF a.s = 1 /\ b.s = 1 THEN 1 ELSE 0)
    ELSE IF IsZero(a) THEN b
    ELSE IF IsZero(b) THEN a
    ELSE LET big == IF MagnitudeGeq(a, b) THEN a ELSE b
             small == IF MagnitudeGeq(a, b) THEN b ELSE a
             d == big.e - small.e
             \* beyond 64 binary places the small operand only decides the
             \* direction of rounding
             dd == IF d > 64 THEN 64 ELSE d
             xs == IF d > 64 THEN <<1>> ELSE Significand(small)
             xb == BigShl(Significand(big), dd)
             q == big.e - dd - 1075
         IN IF a.s = b.s THEN RoundPack(big.s, BigAdd(xb, xs), q)
            ELSE IF a.e = b.e /\ a.m = b.m THEN FZero(0)
            ELSE RoundPack(big.s, BigSub(xb, xs), q)

\* left * right of f64 (round to nearest, ties to even)
FMul(a, b) ==
    LET s == IF a.s = b.s THEN 0 ELSE 1
    IN IF ~(IsZero(a) \/ IsNormal(a)) \/ ~(IsZero(b) \/ IsNormal(b)) THEN Unmodelled
       ELSE IF IsZero(a) \/ IsZero(b) THEN FZero(s)
       ELSE RoundPack(s, BigMul(Significand(a), Significand(b)),
                      (a.e - 1075) + (b.e - 1075))

\* usize::MAX stands for every address too large for a memory of the model
UsizeMax == 2^30

RECURSIVE BitsToNat(_, _, _)
BitsToNat(x, hi, lo) ==
    IF hi < lo THEN 0 ELSE Bit(x, lo) + 2 * BitsToNat(x, hi, lo + 1)

\* `v as usize`: truncation toward zero, saturating; NaN gives 0
FToUsize(v) ==
    IF v.e = 2047 THEN (IF v.m = ZeroFrac /\ v.s = 0 THEN UsizeMax ELSE 0)
    ELSE IF v.s = 1 \/ v.e < 1023 THEN 0
    ELSE IF v.e - 1023 >= 30 THEN UsizeMax
    ELSE BitsToNat(Significand(v), 53, 53 - (v.e - 1023))

\* the bytes most significant first, as to_be_bytes would give them
to_be_bytes(v) ==
    [k \in 1..8 |->
        IF k = 1 THEN 128 * v.s + (v.e \div 16)
        ELSE IF k = 2 THEN 16 * (v.e % 16) + v.m[1]
        ELSE 16 * v.m[2 * (k - 2)] + v.m[2 * (k - 2) + 1]]

\* f64::to_le_bytes: the 8 bytes of a value, least significant first
to_le_bytes(v) ==
    [k \in 1..8 |->
        IF k <= 6 THEN 16 * v.m[12 - 2 * (k - 1)] + v.m[13 - 2 * (k - 1)]
        ELSE IF k = 7 THEN 16 * (v.e % 16) + v.m[1]
        ELSE 128 * v.s + (v.e \div 16)]

\* f64::from_le_bytes
from_le_bytes(b) ==
    F64(b[8] \div 128,
        16 * (b[8] % 128) + (b[7] \div 16),
        [j \in 1..13 |->
            IF j = 1 THEN b[7] % 16
            ELSE IF j % 2 = 0 THEN b[7 - (j \div 2)] \div 16
            ELSE b[7 - (j \div 2)] % 16])

(***************************************************************************)
(* The f64 literals the programs and the host use.                         *)
(***************************************************************************)
Lit(e, first, mid, last) ==
    F64(0, e, [j \in 1..13 |-> IF j = 1 THEN first ELSE IF j = 13 THEN last ELSE mid])

\* 0.1 = 0x3FB999999999999A
F0_1 == Lit(1019, 9, 9, 10)
\* 2.0 = 0x4000000000000000
F2 == Lit(1024, 0, 0, 0)
\* 2.3 = 0x4002666666666666
F2_3 == Lit(1024, 2, 6, 6)
\* 3.0 = 0x4008000000000000
F3 == Lit(1024, 8, 0, 0)
\* 12.0 = 0x4028000000000000
F12 == Lit(1026, 8, 0, 0)
\* 20.0 = 0x4034000000000000
F20 == Lit(1027, 4, 0, 0)

(***************************************************************************)
(* Instruction and Function.                                               *)
(***************************************************************************)
Const(v) == [op |-> "Const", val |-> v]
Mul == [op |-> "Mul"]
Add == [op |-> "Add"]
Load == [op |-> "Load"]
Store == [op |-> "Store"]
LocalGet(i) == [op |-> "LocalGet", idx |-> i]
LocalSet(i) == [op |-> "LocalSet", idx |-> i]
CallFunc(i) == [op |-> "CallFunc", idx |-> i]

Function(nparams, returns, code) ==
    [nparams |-> nparams, returns |-> returns, code |-> code]

\* Option<f64>
None == [some |-> FALSE]
Some(v) == [some |-> TRUE, val |-> v]

(***************************************************************************)
(* The function table of the modelled machines.  Entry 1 is the            *)
(* update_position of tests::example_functions; the others cover the       *)
(* shapes of function the claims speak of.  CallFunc(i) names entry i + 1. *)
(***************************************************************************)
update_position == Function(3, TRUE, <<LocalGet(0), LocalGet(1), LocalGet(2), Mul, Add>>)

Functions ==
    << update_position,
       \* 1: returns its argument
       Function(1, TRUE, <<LocalGet(0)>>),
       \* 2: declared as returning, empty body
       Function(0, TRUE, <<>>),
       \* 3: sets a local, then reads it; returns nothing
       Function(1, FALSE, <<Const(F3), LocalSet(0), LocalGet(0)>>),
       \* 4: calls 1 with its second argument, then reads its first
       Function(2, TRUE, <<LocalGet(1), CallFunc(1), LocalGet(0), Add>>),
       \* 5: calls itself
       Function(1, TRUE, <<LocalGet(0), CallFunc(5)>>),
       \* 6: reads a local it was not given
       Function(1, TRUE, <<LocalGet(1)>>) >>

(***************************************************************************)
(* The state: a Machine (stack, memory, functions), the activations of     *)
(* execute that are in progress, and the host that drives the machine.     *)
(***************************************************************************)
VARIABLES
    stack,      \* Machine.stack
    memory,     \* Machine.memory, one byte per element; byte 0 is memory[1]
    functions,  \* Machine.functions
    frames,     \* the activations of execute, outermost first
    ctl,        \* "exec": the top activation is in its loop; "ret": a call
                \* made by CallFunc has just returned into it
    result,     \* the Option<f64> last returned by call, pop or load
    status,     \* "idle", "running", or "fault" once the program has panicked
    fault,      \* which panic
    seeds,      \* seeding operations of the host so far
    ran,        \* whether the host has made its run (execute or call)
    host,       \* which of the modelled hosts drives this machine
    lastOp      \* the host's last operation

vars == <<stack, memory, functions, frames, ctl, result, status, fault, seeds, ran, host, lastOp>>

\* an activation that call makes without the body of its function
FrameWithoutBody(code, locals, caller, func, args) ==
    [code |-> IF caller = "CallFunc" THEN <<>> ELSE code,
     pc |-> 1, locals |-> locals, caller |-> caller,
     func |-> func, args |-> args,
     base |-> IF caller = "CallFunc" THEN Len(stack) - Len(args) ELSE Len(stack)]

\* an activation of execute: the instructions, the position of the loop, the
\* locals handed in, and, when call made it, call's func and args.  base
\* records how many values the stack held beneath the activation when it was
\* made (beneath the arguments, for a CallFunc); the program keeps no such
\* mark
Frame(code, locals, caller, func, args) ==
    [code |-> code, pc |-> 1, locals |-> locals, caller |-> caller,
     func |-> func, args |-> args,
     base |-> IF caller = "CallFunc" THEN Len(stack) - Len(args) ELSE Len(stack)]

NoLocals == [some |-> FALSE]

NoFunc == Function(0, FALSE, <<>>)

\* locals bound in the opposite order
LocalsOfReversed(args) ==
    [some |-> TRUE, map |-> [k \in 1..Len(args) |-> args[Len(args) + 1 - k]]]

\* call, lines 64-67: local k is bound to args[k]
LocalsOf(args) == [some |-> TRUE, map |-> [k \in 1..Len(args) |-> args[k]]]

Top == frames[Len(frames)]

AtInstr == status = "running" /\ ctl = "exec" /\ Top.pc <= Len(Top.code)

Cur == Top.code[Top.pc]

At(op) == AtInstr /\ Cur.op = op

\* a loop that skips the instruction after the one it has executed
AdvanceSkipping == [frames EXCEPT ![Len(frames)].pc = @ + 2]

\* the for loop of line 83 moves on to the next instruction
Advance == [frames EXCEPT ![Len(frames)].pc = @ + 1]

Panic(kind) == status' = "fault" /\ fault' = kind

\* a pop that yields 0 where the stack is empty
PoppedOrZero(stk) == IF stk = <<>> THEN Some(FZero(0)) ELSE Some(stk[Len(stk)])

\* Machine::pop on a sequence: the Option popped and the rest
Popped(stk) == IF stk = <<>> THEN None ELSE Some(stk[Len(stk)])

\* a pop that takes the oldest value
RestFromBottom(stk) == IF stk = <<>> THEN <<>> ELSE Tail(stk)

\* Machine::pop on a sequence: what stays
Rest(stk) == IF stk = <<>> THEN <<>> ELSE SubSeq(stk, 1, Len(stk) - 1)

\* the slice memory[addr..addr + 8] exists
InBounds(mem, addr) == addr + 8 <= Len(mem)

\* Machine::load, given that the slice exists
load(mem, addr) == from_le_bytes([k \in 1..8 |-> mem[addr + k]])

\* a store whose span starts one byte late
storeOffByOne(mem, addr, val) ==
    [i \in 1..Len(mem) |->
        IF i > addr + 1 /\ i <= addr + 9 THEN to_le_bytes(val)[i - addr - 1] ELSE mem[i]]

\* Machine::store, given that the slice exists
store(mem, addr, val) ==
    [i \in 1..Len(mem) |->
        IF i > addr /\ i <= addr + 8 THEN to_le_bytes(val)[i - addr] ELSE mem[i]]

\* The hosts of the model.  "memory" only stores and loads; "arith" executes one
\* Const / Add / Mul program on a fresh machine; "driver" seeds memory and stack
\* as the tests do, makes one run (execute or call), then inspects the machine.
Hosts == {"memory", "arith", "driver"}

Init ==
    /\ stack = <<>>
    /\ memory = [i \in 1..MemSize |-> 0]
    /\ functions = Functions
    /\ frames = <<>>
    /\ ctl = "exec"
    /\ result = None
    /\ status = "idle"
    /\ fault = "none"
    /\ seeds = 0
    /\ ran = FALSE
    /\ host \in Hosts
    /\ lastOp = [op |-> "new"]

(***************************************************************************)
(* execute: one action per arm of the match, each one iteration of the     *)
(* loop of lines 83-134.                                                   *)
(***************************************************************************)
\* Instruction::Const, line 86
ExecConst ==
    /\ At("Const")
    /\ stack' = Append(stack, Cur.val)
    /\ frames' = Advance
    /\ UNCHANGED <<memory, functions, ctl, result, status, fault, seeds, ran, host, lastOp>>

\* Instruction::Add and Instruction::Mul, lines 87-96: right is popped first,
\* then left; each unwrap panics on None.  `op` is the arm, `arith` the
\* operation it applies
Apply(op, left, right) == IF op = "Add" THEN FAdd(left, right) ELSE FMul(left, right)

ExecArith(op, arith) ==
    /\ At(op)
    /\ LET right == Popped(stack)
           s1 == Rest(stack)
           left == Popped(s1)
           s2 == Rest(s1)
       IN IF ~right.some
          THEN Panic("StackUnderflow") /\ UNCHANGED <<stack, frames>>
          ELSE IF ~left.some
          THEN Panic("StackUnderflow") /\ stack' = s1 /\ UNCHANGED frames
          ELSE /\ Apply(arith, left.val, right.val) # Unmodelled
               /\ stack' = Append(s2, Apply(arith, left.val, right.val))
               /\ frames' = Advance
               /\ UNCHANGED <<status, fault>>
    /\ UNCHANGED <<memory, functions, ctl, result, seeds, ran, host, lastOp>>

ExecAdd == ExecArith("Add", "Add")

\* Mul computing a sum
ExecMulAsAdd == ExecArith("Mul", "Add")

ExecMul == ExecArith("Mul", "Mul")

\* Instruction::Load, lines 97-101
ExecLoad ==
    /\ At("Load")
    /\ LET addr == Popped(stack)
           s1 == Rest(stack)
       IN IF ~addr.some
          THEN Panic("StackUnderflow") /\ UNCHANGED <<stack, frames>>
          ELSE IF ~InBounds(memory, FToUsize(addr.val))
          THEN Panic("OutOfBounds") /\ stack' = s1 /\ UNCHANGED frames
          ELSE /\ stack' = Append(s1, load(memory, FToUsize(addr.val)))
               /\ frames' = Advance
               /\ UNCHANGED <<status, fault>>
    /\ UNCHANGED <<memory, functions, ctl, result, seeds, ran, host, lastOp>>

\* a Store that pops addr first, then val
ExecStoreAddrFirst ==
    /\ At("Store")
    /\ LET addr == Popped(stack)
           s1 == Rest(stack)
           val == Popped(s1)
           s2 == Rest(s1)
       IN IF ~addr.some
          THEN Panic("StackUnderflow") /\ UNCHANGED <<stack, frames, memory>>
          ELSE IF ~val.some
          THEN Panic("StackUnderflow") /\ stack' = s1 /\ UNCHANGED <<frames, memory>>
          ELSE IF ~InBounds(memory, FToUsize(addr.val))
          THEN Panic("OutOfBounds") /\ stack' = s2 /\ UNCHANGED <<frames, memory>>
          ELSE /\ memory' = store(memory, FToUsize(addr.val), val.val)
               /\ stack' = s2
               /\ frames' = Advance
               /\ UNCHANGED <<status, fault>>
    /\ UNCHANGED <<functions, ctl, result, seeds, ran, host, lastOp>>

\* Instruction::Store, lines 102-106: val is popped first, then addr
ExecStore ==
    /\ At("Store")
    /\ LET val == Popped(stack)
           s1 == Rest(stack)
           addr == Popped(s1)
           s2 == Rest(s1)
       IN IF ~val.some
          THEN Panic("StackUnderflow") /\ UNCHANGED <<stack, frames, memory>>
          ELSE IF ~addr.some
          THEN Panic("StackUnderflow") /\ stack' = s1 /\ UNCHANGED <<frames, memory>>
          ELSE IF ~InBounds(memory, FToUsize(addr.val))
          THEN Panic("OutOfBounds") /\ stack' = s2 /\ UNCHANGED <<frames, memory>>
          ELSE /\ memory' = store(memory, FToUsize(addr.val), val.val)
               /\ stack' = s2
               /\ frames' = Advance
               /\ UNCHANGED <<status, fault>>
    /\ UNCHANGED <<functions, ctl, result, seeds, ran, host, lastOp>>

\* a LocalGet that goes on when the HashMap does not hold the key
ExecLocalGetLenient ==
    /\ At("LocalGet")
    /\ IF Top.locals.some /\ Cur.idx < Len(Top.locals.map)
       THEN /\ stack' = Append(stack, Top.locals.map[Cur.idx + 1])
            /\ frames' = Advance
            /\ UNCHANGED <<status, fault>>
       ELSE /\ frames' = Advance
            /\ UNCHANGED <<stack, status, fault>>
    /\ UNCHANGED <<memory, functions, ctl, result, seeds, ran, host, lastOp>>

\* Instruction::LocalGet, lines 107-113: indexing the HashMap panics on a key
\* it does not hold; without locals the arm prints and goes on
ExecLocalGet ==
    /\ At("LocalGet")
    /\ IF Top.locals.some
       THEN IF Cur.idx < Len(Top.locals.map)
            THEN /\ stack' = Append(stack, Top.locals.map[Cur.idx + 1])
                 /\ frames' = Advance
                 /\ UNCHANGED <<status, fault>>
            ELSE Panic("UnboundLocal") /\ UNCHANGED <<stack, frames>>
       ELSE /\ frames' = Advance
            /\ UNCHANGED <<stack, status, fault>>
    /\ UNCHANGED <<memory, functions, ctl, result, seeds, ran, host, lastOp>>

\* Instruction::LocalSet, lines 114-120: the arm is empty
ExecLocalSet ==
    /\ At("LocalSet")
    /\ frames' = Advance
    /\ UNCHANGED <<stack, memory, functions, ctl, result, status, fault, seeds, ran, host, lastOp>>

\* lines 123-126, (0..n).map(|_| self.pop().unwrap()).rev().collect(): rev()
\* draws the range from its back and map runs its closure as each index is
\* drawn; the closure ignores the index, so the k-th value collected is the
\* k-th value popped and fargs[0] is the value that was on top
PopN(stk, n) == [k \in 1..n |-> stk[Len(stk) + 1 - k]]

\* Instruction::CallFunc, lines 121-128, up to the entry of the callee's body
\* (call, lines 64-69).  call and execute recurse on the native stack, which
\* holds MaxDepth activations; one more overflows it and the process aborts.
ExecCallFunc ==
    /\ At("CallFunc")
    /\ IF Cur.idx >= Len(functions)
       THEN Panic("BadFunctionIndex") /\ UNCHANGED <<stack, frames>>
       ELSE LET func == functions[Cur.idx + 1]
                fargs == PopN(stack, func.nparams)
            IN IF Len(stack) < func.nparams
               THEN Panic("StackUnderflow") /\ stack' = <<>> /\ UNCHANGED frames
               ELSE /\ stack' = SubSeq(stack, 1, Len(stack) - func.nparams)
                    /\ IF Len(frames) < MaxDepth
                       THEN /\ frames' = Append(frames,
                                   Frame(func.code, LocalsOf(fargs), "CallFunc", func, fargs))
                            /\ UNCHANGED <<status, fault>>
                       ELSE Panic("StackOverflow") /\ UNCHANGED frames
    /\ UNCHANGED <<memory, functions, ctl, result, seeds, ran, host, lastOp>>

AtEnd == status = "running" /\ ctl = "exec" /\ Top.pc > Len(Top.code)

\* a return that leaves the callee's locals bound in the caller
CallReturnLeaky ==
    /\ AtEnd
    /\ Top.caller # "execute"
    /\ result' = (IF Top.func.returns THEN Popped(stack) ELSE None)
    /\ stack' = (IF Top.func.returns THEN Rest(stack) ELSE stack)
    /\ frames' = IF Len(frames) = 1 THEN <<>>
                 ELSE [SubSeq(frames, 1, Len(frames) - 1)
                          EXCEPT ![Len(frames) - 1].locals = Top.locals]
    /\ IF Top.caller = "call"
       THEN status' = "idle" /\ ctl' = "exec"
       ELSE status' = status /\ ctl' = "ret"
    /\ UNCHANGED <<memory, functions, fault, seeds, ran, host, lastOp>>

\* call, lines 71-75, once execute has returned from the body
CallReturn ==
    /\ AtEnd
    /\ Top.caller # "execute"
    /\ result' = (IF Top.func.returns THEN Popped(stack) ELSE None)
    /\ stack' = (IF Top.func.returns THEN Rest(stack) ELSE stack)
    /\ frames' = SubSeq(frames, 1, Len(frames) - 1)
    /\ IF Top.caller = "call"
       THEN status' = "idle" /\ ctl' = "exec"
       ELSE status' = status /\ ctl' = "ret"
    /\ UNCHANGED <<memory, functions, fault, seeds, ran, host, lastOp>>

\* a CallFunc that, having pushed the result, resumes at the CallFunc itself
CallFuncPushResuming ==
    /\ status = "running"
    /\ ctl = "ret"
    /\ IF functions[Cur.idx + 1].returns
       THEN IF result.some
            THEN /\ stack' = Append(stack, result.val)
                 /\ ctl' = "exec"
                 /\ UNCHANGED <<frames, status, fault>>
            ELSE Panic("MissingReturn") /\ UNCHANGED <<stack, frames, ctl>>
       ELSE /\ frames' = Advance
            /\ ctl' = "exec"
            /\ UNCHANGED <<stack, status, fault>>
    /\ UNCHANGED <<memory, functions, result, seeds, ran, host, lastOp>>

\* Instruction::CallFunc, lines 129-131, after call has returned
CallFuncPush ==
    /\ status = "running"
    /\ ctl = "ret"
    /\ IF functions[Cur.idx + 1].returns
       THEN IF result.some
            THEN /\ stack' = Append(stack, result.val)
                 /\ frames' = Advance
                 /\ ctl' = "exec"
                 /\ UNCHANGED <<status, fault>>
            ELSE Panic("MissingReturn") /\ UNCHANGED <<stack, frames, ctl>>
       ELSE /\ frames' = Advance
            /\ ctl' = "exec"
            /\ UNCHANGED <<stack, status, fault>>
    /\ UNCHANGED <<memory, functions, result, seeds, ran, host, lastOp>>

\* the host's execute returns, line 135
ExecuteReturn ==
    /\ AtEnd
    /\ Top.caller = "execute"
    /\ frames' = <<>>
    /\ status' = "idle"
    /\ UNCHANGED <<stack, memory, functions, ctl, result, fault, seeds, ran, host, lastOp>>

(***************************************************************************)
(* The inputs of the hosts.                                                *)
(***************************************************************************)
FNeg(v) == F64(1, v.e, v.m)

\* addresses and values of the "memory" host: overlapping and adjacent spans,
\* the last span that fits and the first that does not
MemAddrs == {3, 12, MemSize - 8, MemSize - 7}
MemVals == {F3, F0_1, FNeg(F2_3), FZero(0), FZero(1)}

\* addresses and values of the "driver" host: x_addr, v_addr and the values
\* of the tests, scaled to MemSize
DriverAddrs == {3, 12}
DriverVals == {F2, F3}

SeqsOfLen(S, n) == [1..n -> S]

ArithInstrs == {Const(F2), Const(F3), Const(F0_1), Add, Mul}

\* tests::example
Scenario1 == <<Const(F2), Const(F3), Const(F0_1), Mul, Add>>

ArithPrograms ==
    {Scenario1} \cup UNION {SeqsOfLen(ArithInstrs, n) : n \in 0..MaxArithLen}

\* tests::example_variables, with x_addr = 12 and v_addr = 3
Scenario2 ==
    <<Const(F12), Const(F12), Load, Const(F3), Load, Const(F0_1), Mul, Add, Store>>

\* tests::example_functions
Scenario3 ==
    <<Const(F12), Const(F12), Load, Const(F3), Load, Const(F0_1), CallFunc(0), Store>>

DriverPrograms ==
    { Scenario1, Scenario2, Scenario3,
      \* too few operands
      <<Add>>, <<Const(F2), Add, Const(F3)>>, <<Mul>>, <<Const(F2), Mul>>,
      <<Load>>, <<Store>>, <<Const(F2), Store>>,
      <<CallFunc(0)>>, <<Const(F2), Const(F3), CallFunc(0), Const(F2)>>,
      \* locals outside a call
      <<LocalGet(0), Const(F2)>>, <<Const(F2), LocalSet(0), Const(F3)>>,
      \* addresses out of bounds
      <<Const(F20), Load>>, <<Const(F20), Const(F2), Store, Const(F3)>>,
      \* a store read back, at the same address and at an overlapping one
      <<Const(F2), Const(F0_1), Store, Const(F2), Load>>,
      <<Const(F2), Const(F3), Store, Const(F3), Load, Const(F2), Add>>,
      \* calls
      <<Const(F2), Const(F3), Const(F0_1), CallFunc(0)>>,
      <<Const(F3), Const(F2), CallFunc(1), Add>>,
      <<CallFunc(2)>>, <<Const(F2), CallFunc(2), Const(F3)>>,
      <<Const(F0_1), Const(F2), CallFunc(3), Add>>,
      <<Const(F0_1), Const(F2), Const(F3), CallFunc(4), Mul>>,
      <<Const(F2), CallFunc(5)>>,
      <<Const(F2), CallFunc(6), Const(F3)>>,
      <<CallFunc(7)>> }

\* argument lists of the host's direct calls
ArgLists == {<<>>, <<F2>>, <<F2, F3>>, <<F3, F2>>, <<F2, F3, F0_1>>, <<F2, F3, F0_1, F12>>}

Idle == status = "idle"

(***************************************************************************)
(* The host's operations on a Machine.                                     *)
(***************************************************************************)
\* a store that copies byte by byte and panics at the first byte outside
HostStoreBytewise(addr, val) ==
    /\ Idle /\ ~ran /\ seeds < MaxSeeds
    /\ seeds' = seeds + 1
    /\ lastOp' = [op |-> "store", addr |-> addr, val |-> val]
    /\ memory' = store(memory, addr, val)
    /\ IF InBounds(memory, addr)
       THEN UNCHANGED <<status, fault>>
       ELSE Panic("OutOfBounds")
    /\ UNCHANGED <<stack, functions, frames, ctl, result, ran, host>>

\* Machine::store, lines 51-53: slicing panics before any byte is copied
HostStore(addr, val) ==
    /\ Idle /\ ~ran /\ seeds < MaxSeeds
    /\ seeds' = seeds + 1
    /\ lastOp' = [op |-> "store", addr |-> addr, val |-> val]
    /\ IF InBounds(memory, addr)
       THEN memory' = store(memory, addr, val) /\ UNCHANGED <<status, fault>>
       ELSE Panic("OutOfBounds") /\ UNCHANGED memory
    /\ UNCHANGED <<stack, functions, frames, ctl, result, ran, host>>

\* Machine::load, lines 47-49
HostLoad(addr) ==
    /\ Idle
    /\ lastOp' = [op |-> "load", addr |-> addr]
    /\ IF InBounds(memory, addr)
       THEN result' = Some(load(memory, addr)) /\ UNCHANGED <<status, fault>>
       ELSE Panic("OutOfBounds") /\ UNCHANGED result
    /\ UNCHANGED <<stack, memory, functions, frames, ctl, seeds, ran, host>>

\* Machine::push, lines 55-57
HostPush(item) ==
    /\ Idle /\ ~ran /\ seeds < MaxSeeds
    /\ seeds' = seeds + 1
    /\ lastOp' = [op |-> "push", val |-> item]
    /\ stack' = Append(stack, item)
    /\ UNCHANGED <<memory, functions, frames, ctl, result, status, fault, ran, host>>

\* Machine::pop, lines 59-61
HostPop ==
    /\ Idle
    /\ lastOp' = [op |-> "pop"]
    /\ result' = Popped(stack)
    /\ stack' = Rest(stack)
    /\ UNCHANGED <<memory, functions, frames, ctl, status, fault, seeds, ran, host>>

\* Machine::execute called by the host with no locals (as the tests do)
HostExecute(instructions) ==
    /\ Idle /\ ~ran
    /\ ran' = TRUE
    /\ lastOp' = [op |-> "execute", code |-> instructions]
    /\ frames' = <<Frame(instructions, NoLocals, "execute", NoFunc, <<>>)>>
    /\ status' = "running"
    /\ ctl' = "exec"
    /\ UNCHANGED <<stack, memory, functions, result, fault, seeds, host>>

\* Machine::call called by the host, lines 63-69, up to the entry of the body
HostCall(idx, args) ==
    /\ Idle /\ ~ran
    /\ ran' = TRUE
    /\ lastOp' = [op |-> "call", idx |-> idx, args |-> args]
    /\ frames' = <<Frame(functions[idx + 1].code, LocalsOf(args), "call",
                         functions[idx + 1], args)>>
    /\ status' = "running"
    /\ ctl' = "exec"
    /\ UNCHANGED <<stack, memory, functions, result, fault, seeds, host>>

MemoryHost ==
    /\ host = "memory"
    /\ \/ \E a \in MemAddrs, v \in MemVals : HostStore(a, v)
       \/ \E a \in MemAddrs : HostLoad(a)

ArithHost ==
    /\ host = "arith"
    /\ \/ \E p \in ArithPrograms : HostExecute(p)
       \/ HostPop

DriverHost ==
    /\ host = "driver"
    /\ \/ \E a \in DriverAddrs, v \in DriverVals : HostStore(a, v)
       \/ \E v \in DriverVals : HostPush(v)
       \/ \E p \in DriverPrograms : HostExecute(p)
       \/ \E i \in 0..(Len(functions) - 1), args \in ArgLists : HostCall(i, args)
       \/ ran /\ \E a \in DriverAddrs : HostLoad(a)
       \/ ran /\ HostPop

Next ==
    \/ MemoryHost
    \/ ArithHost
    \/ DriverHost
    \/ ExecConst
    \/ ExecAdd
    \/ ExecMul
    \/ ExecLoad
    \/ ExecStore
    \/ ExecLocalGet
    \/ ExecLocalSet
    \/ ExecCallFunc
    \/ CallReturn
    \/ CallFuncPush
    \/ ExecuteReturn

Spec == Init /\ [][Next]_vars

\* the steps of execute and call other than the arithmetic ones
Run ==
    \/ ExecConst \/ ExecLoad \/ ExecStore
    \/ ExecLocalGet \/ ExecLocalSet \/ ExecCallFunc
    \/ CallReturn \/ CallFuncPush \/ ExecuteReturn

\* ExecAdd or ExecMul can take a step
CanArith ==
    /\ At("Add") \/ At("Mul")
    /\ \/ Len(stack) < 2
       \/ Apply(Cur.op, stack[Len(stack) - 1], stack[Len(stack)]) # Unmodelled

\* Once the host has called, the loop of lines 83-134 runs on without waiting
\* for anything: weak fairness of every step of execute and call.  For the
\* arithmetic steps it is written out, with CanArith for ENABLED.
FairSpec ==
    /\ Spec
    /\ WF_vars(Run)
    /\ []<>(~CanArith) \/ []<><<ExecAdd \/ ExecMul>>_vars

(***************************************************************************)
(* Properties.                                                             *)
(***************************************************************************)
\* the function the host's last call named
CalledFunc == functions[lastOp.idx + 1]

\* the host's last operation was a call whose argument count differs from
\* the function's nparams
MismatchedCall == lastOp.op = "call" /\ Len(lastOp.args) # CalledFunc.nparams

\* C1: a call whose argument list has another length than the function's
\* nparams faults: it executes no instruction of the body and does not
\* complete.
C1_ArityMismatchFaults ==
    MismatchedCall =>
        /\ frames # <<>> => Len(frames) = 1 /\ frames[1].pc = 1
        /\ status # "idle"

\* C2: inside a call, LocalSet(i) pops the top of the stack and binds local i
\* of the current activation to the value popped.
C2_LocalSetPopsAndBinds ==
    [][(At("LocalSet") /\ Top.locals.some /\ stack # <<>>)
          => /\ stack' = Rest(stack)
             /\ frames'[Len(frames)].locals.map[Cur.idx + 1] = stack[Len(stack)]]_vars

\* C3: with no local scope, LocalGet and LocalSet end the execution in an
\* unbound-local fault.
C3_NoScopeFaults ==
    [][((At("LocalGet") \/ At("LocalSet")) /\ ~Top.locals.some)
          => status' = "fault" /\ fault' = "UnboundLocal"]_vars

\* the operands the instruction pops
Needs(instr) ==
    IF instr.op \in {"Add", "Mul", "Store"} THEN 2
    ELSE IF instr.op = "Load" THEN 1
    ELSE IF instr.op = "CallFunc" /\ instr.idx < Len(functions)
    THEN functions[instr.idx + 1].nparams
    ELSE 0

\* C4: an instruction that needs more operands than the stack holds ends the
\* execution in a stack-underflow fault: the loop does not advance and pushes
\* nothing.
C4_UnderflowFaults ==
    [][(AtInstr /\ Needs(Cur) > Len(stack))
          => /\ status' = "fault" /\ fault' = "StackUnderflow"
             /\ frames' = frames
             /\ Len(stack') < Len(stack) \/ stack' = stack]_vars

\* execute([Add]) on the empty stack of a fresh machine has panicked
C4_Witness ==
    /\ status = "fault" /\ fault = "StackUnderflow"
    /\ lastOp.op = "execute" /\ lastOp.code = <<Add>>
    /\ seeds = 0 /\ stack = <<>>
    /\ Top.pc = 1

\* C5: a call of a function declared as returning never completes normally
\* with no result.
C5_MissingReturnFaults ==
    (lastOp.op = "call" /\ ~MismatchedCall /\ status = "idle" /\ CalledFunc.returns)
        => result.some

\* C6: load, store, Load and Store at an address with addr + 8 > memory.len()
\* panic out of bounds and change no byte of memory.
C6_OutOfBoundsFaults ==
    [][/\ (Idle /\ lastOp'.op \in {"load", "store"} /\ lastOp'.addr + 8 > Len(memory))
          => status' = "fault" /\ fault' = "OutOfBounds" /\ memory' = memory
       /\ (At("Load") /\ Len(stack) >= 1 /\ FToUsize(stack[Len(stack)]) + 8 > Len(memory))
          => status' = "fault" /\ fault' = "OutOfBounds" /\ memory' = memory
       /\ (At("Store") /\ Len(stack) >= 2
             /\ FToUsize(stack[Len(stack) - 1]) + 8 > Len(memory))
          => status' = "fault" /\ fault' = "OutOfBounds" /\ memory' = memory]_vars

\* a store out of bounds has panicked and left the bytes of an earlier store
C6_Witness ==
    /\ status = "fault" /\ fault = "OutOfBounds"
    /\ lastOp.op = "store" /\ lastOp.addr + 8 > Len(memory)
    /\ load(memory, 3) = F0_1

\* C7: in an activation made by call, LocalGet(i) with i < args.len() pushes
\* args[i] of that call.
C7_LocalGetPushesOwnArg ==
    [][(At("LocalGet") /\ Top.locals.some /\ Cur.idx < Len(Top.args))
          => stack' = Append(stack, Top.args[Cur.idx + 1])]_vars

\* a nested activation has pushed its own first argument, which differs from
\* the first argument of the enclosing activation
C7_Witness ==
    /\ status = "running" /\ Len(frames) = 2
    /\ frames[2].code = <<LocalGet(0)>> /\ frames[2].pc = 2
    /\ stack[Len(stack)] = frames[2].args[1]
    /\ frames[1].locals.some
    /\ frames[1].args[1] # frames[2].args[1]

\* C8: CallFunc(i) removes the top nparams values and binds them so that the
\* deepest is local 0 and the top is local nparams - 1; once the callee has
\* returned, the result is pushed if the function returns, and nothing is
\* pushed otherwise.
C8_CallFuncArgsAndResult ==
    [][/\ (At("CallFunc") /\ Cur.idx < Len(functions)
             /\ Len(stack) >= functions[Cur.idx + 1].nparams)
          => LET n == functions[Cur.idx + 1].nparams
             IN /\ stack' = SubSeq(stack, 1, Len(stack) - n)
                /\ Len(frames') = Len(frames) + 1
                /\ frames'[Len(frames')].locals.some
                /\ Len(frames'[Len(frames')].locals.map) = n
                /\ \A k \in 0..(n - 1) :
                       frames'[Len(frames')].locals.map[k + 1] = stack[Len(stack) - n + 1 + k]
       /\ (status = "running" /\ ctl = "ret" /\ status' = "running")
          => IF functions[Cur.idx + 1].returns
             THEN result.some /\ stack' = Append(stack, result.val)
             ELSE stack' = stack]_vars

\* C9: store(a, v) immediately followed by load(a) returns v, bit for bit.
C9_StoreLoadRoundTrip ==
    [][(Idle /\ lastOp.op = "store" /\ lastOp'.op = "load"
          /\ lastOp'.addr = lastOp.addr /\ status' = "idle")
          => result' = Some(lastOp.val)]_vars

\* -2.3 has been read back over the bytes of two earlier stores
C9_Witness ==
    /\ status = "idle" /\ lastOp.op = "load" /\ lastOp.addr = 12
    /\ seeds = 2
    /\ result = Some(FNeg(F2_3))
    /\ memory[MemSize] # 0

\* the instructions of the postfix expression that ends at position k
RECURSIVE PostfixSize(_, _)
PostfixSize(code, k) ==
    IF code[k].op = "Const" THEN 1
    ELSE LET r == PostfixSize(code, k - 1)
         IN 1 + r + PostfixSize(code, k - 1 - r)

\* the value of the postfix expression that ends at position k
RECURSIVE PostfixValue(_, _)
PostfixValue(code, k) ==
    IF code[k].op = "Const" THEN code[k].val
    ELSE LET right == PostfixValue(code, k - 1)
             left == PostfixValue(code, k - 1 - PostfixSize(code, k - 1))
         IN IF code[k].op = "Add" THEN FAdd(left, right) ELSE FMul(left, right)

Count(code, ops) == Cardinality({k \in 1..Len(code) : code[k].op \in ops})

\* C10: a Const / Add / Mul program that runs to its end from an empty stack
\* leaves (number of Const) - (number of Add and Mul) values, the top one the
\* value of the program's last postfix expression.
C10_ArithmeticResult ==
    (host = "arith" /\ AtEnd /\ Top.caller = "execute")
        => /\ Len(stack) = Count(Top.code, {"Const"}) - Count(Top.code, {"Add", "Mul"})
           /\ stack # <<>> => stack[Len(stack)] = PostfixValue(Top.code, Len(Top.code))

\* [Const(2.0), Const(3.0), Const(0.1), Mul, Add] has left [2.3]
C10_Witness ==
    /\ host = "arith" /\ AtEnd
    /\ Top.code = Scenario1
    /\ stack = <<F2_3>>

\* memory once x + v * dt has been written at the address of x
Updated(mem, x_addr, v_addr, dt) ==
    store(mem, x_addr, FAdd(load(mem, x_addr), FMul(load(mem, v_addr), dt)))

\* C11: the program that computes x + v * dt through CallFunc(0) ends as the
\* inline program does: its final Store consumes what the program pushed and
\* leaves memory with old(x) + old(v) * dt at the address of x, all other
\* bytes unchanged.
C11_CallMatchesInline ==
    [][(At("Store") /\ Len(frames) = 1 /\ Top.code \in {Scenario2, Scenario3}
          /\ Top.pc = Len(Top.code))
          => /\ memory' = Updated(memory, 12, 3, F0_1)
             /\ stack' = SubSeq(stack, 1, Len(stack) - 2)
             /\ status' = "running"]_vars

\* functions[i] has a CallFunc of its own index in its body
SelfRecursive(i) ==
    \E k \in 1..Len(functions[i + 1].code) : functions[i + 1].code[k] = CallFunc(i)

\* an activation of a self-recursive function is running
InSelfRecursion ==
    /\ status = "running"
    /\ \E k \in 1..Len(frames) : \E i \in 0..(Len(functions) - 1) :
           /\ frames[k].caller # "execute"
           /\ frames[k].func = functions[i + 1]
           /\ SelfRecursive(i)

\* C12: a call of a function that calls itself, made with as many arguments
\* as the function has parameters, terminates: the outermost call eventually
\* returns to its caller.
C12_RecursionReturns ==
    (InSelfRecursion /\ ~(lastOp.op = "call" /\ MismatchedCall))
        ~> (status = "idle" /\ frames = <<>>)

\* the position of the first CallFunc(i) in the body of functions[i]
FirstSelfCall(i) ==
    CHOOSE k \in 1..Len(functions[i + 1].code) :
        /\ functions[i + 1].code[k] = CallFunc(i)
        /\ \A j \in 1..(k - 1) : functions[i + 1].code[j] # CallFunc(i)

\* C12, amended: a function whose body calls itself never returns: no
\* activation of it gets past its own CallFunc, and none reaches its end.
C12_RecursionNeverReturns ==
    \A k \in 1..Len(frames) : \A i \in 0..(Len(functions) - 1) :
        (frames[k].caller # "execute" /\ frames[k].func = functions[i + 1]
            /\ SelfRecursive(i))
           => /\ frames[k].code = functions[i + 1].code
              /\ frames[k].pc <= FirstSelfCall(i)

\* functions[5], called with its one argument, has nested until the native
\* stack overflowed, every activation of it waiting at its CallFunc
C12_Witness ==
    /\ status = "fault" /\ fault = "StackOverflow"
    /\ Len(frames) = MaxDepth
    /\ \A k \in 2..Len(frames) : frames[k].func = functions[6] /\ frames[k].pc = 2

\* the step is a call of load or store by the host that returns
HostAccess == Idle /\ lastOp'.op \in {"load", "store"} /\ status' = "idle"

\* the step is a Load (a Store) that has its operands and does not panic
LoadAccess == At("Load") /\ Len(stack) >= 1 /\ status' = "running"

StoreAccess == At("Store") /\ Len(stack) >= 2 /\ status' = "running"

LoadAddr == FToUsize(stack[Len(stack)])

StoreAddr == FToUsize(stack[Len(stack) - 1])

\* the span [addr, addr + 8) starts at a multiple of 8 and lies inside memory
AlignedInside(addr) == addr % 8 = 0 /\ addr + 8 <= Len(memory)

\* the 8 bytes at [addr, addr + 8)
Span(mem, addr) == [k \in 1..8 |-> mem[addr + k]]

\* mem2 differs from mem at most in the bytes of [addr, addr + 8)
SameOutside(mem, mem2, addr) ==
    /\ Len(mem2) = Len(mem)
    /\ \A i \in 1..Len(mem) : (i <= addr \/ i > addr + 8) => mem2[i] = mem[i]

\* C13: every access that load, store, Load or Store performs covers 8 bytes
\* that start at a multiple of 8 and lie inside memory.
C13_AccessAligned ==
    [][/\ HostAccess => AlignedInside(lastOp'.addr)
       /\ LoadAccess => AlignedInside(LoadAddr)
       /\ StoreAccess => AlignedInside(StoreAddr)]_vars

\* C13, amended: every access that load, store, Load or Store performs lies
\* inside memory and covers exactly the 8 bytes of [addr, addr + 8), at any
\* address: a load reads those bytes and changes none, a store writes those
\* bytes and no other.
C13_AccessInside ==
    [][/\ HostAccess =>
             /\ lastOp'.addr + 8 <= Len(memory)
             /\ lastOp'.op = "load" =>
                    /\ result' = Some(from_le_bytes(Span(memory, lastOp'.addr)))
                    /\ memory' = memory
             /\ lastOp'.op = "store" =>
                    /\ Span(memory', lastOp'.addr) = to_le_bytes(lastOp'.val)
                    /\ SameOutside(memory, memory', lastOp'.addr)
       /\ LoadAccess =>
             /\ LoadAddr + 8 <= Len(memory)
             /\ stack'[Len(stack')] = from_le_bytes(Span(memory, LoadAddr))
             /\ memory' = memory
       /\ StoreAccess =>
             /\ StoreAddr + 8 <= Len(memory)
             /\ Span(memory', StoreAddr) = to_le_bytes(stack[Len(stack)])
             /\ SameOutside(memory, memory', StoreAddr)]_vars

\* tests::example_variables has run over x = 2.0 at address 12 and v = 3.0 at
\* address 3: its Load and Store at those addresses, neither a multiple of 8,
\* have left 2.3 at address 12
C13_Witness ==
    /\ AtEnd /\ Top.code = Scenario2
    /\ load(memory, 12) = F2_3
    /\ load(memory, 3) = F3

\* C14: the local scopes of activations are independent.  No step changes the
\* locals of an activation that stays; every activation made by a call holds
\* the locals the call bound; LocalGet reads the scope of the activation it
\* runs in; and a return removes the scope of the callee and no other.
C14_ScopesIndependent ==
    [][/\ \A k \in 1..Len(frames) :
             /\ k <= Len(frames') => frames'[k].locals = frames[k].locals
             /\ frames[k].caller # "execute" => frames[k].locals = LocalsOf(frames[k].args)
       /\ (At("LocalGet") /\ Top.locals.some /\ Cur.idx < Len(Top.locals.map))
             => stack' = Append(stack, Top.locals.map[Cur.idx + 1])
       /\ (AtEnd /\ Top.caller # "execute")
             => frames' = SubSeq(frames, 1, Len(frames) - 1)]_vars

\* functions[4], called with locals that differ, has called functions[1] on
\* its local 1, got that value back, and then read its own local 0
C14_Witness ==
    /\ status = "running" /\ ctl = "exec" /\ Len(frames) = 2
    /\ Top.func = functions[5] /\ Top.pc = 4
    /\ Top.args[1] # Top.args[2]
    /\ stack[Len(stack)] = Top.args[1]
    /\ stack[Len(stack) - 1] = Top.args[2]

\* activation k has gone past a LocalGet or LocalSet with no local scope
PastUnscopedLocal(k) ==
    /\ ~frames[k].locals.some
    /\ \E j \in 1..Len(frames[k].code) :
           j < frames[k].pc /\ frames[k].code[j].op \in {"LocalGet", "LocalSet"}

\* a fault has occurred: the program has panicked, or the run has met one of
\* the other fault conditions (a local used with no scope, a call with the
\* wrong number of arguments)
Faulted ==
    \/ status = "fault"
    \/ \E k \in 1..Len(frames) : PastUnscopedLocal(k)
    \/ status = "running" /\ lastOp.op = "call" /\ MismatchedCall

\* C15: once a fault has occurred, no further instruction is executed, in the
\* faulting sequence or in a caller's, and stack and memory change no more.
C15_FaultAborts ==
    [][Faulted => (stack' = stack /\ memory' = memory /\ frames' = frames)]_vars

\* C16: Store with two operands and an address in bounds takes the value from
\* the top of the stack and the address from below it, writes the value to
\* the 8 bytes at the address, changes no other byte, pushes nothing and leaves
\* the stack below the two operands as it was.
C16_StoreEffect ==
    [][(At("Store") /\ Len(stack) >= 2 /\ StoreAddr + 8 <= Len(memory))
          => /\ Span(memory', StoreAddr) = to_le_bytes(stack[Len(stack)])
             /\ SameOutside(memory, memory', StoreAddr)
             /\ stack' = SubSeq(stack, 1, Len(stack) - 2)
             /\ status' = "running"
             /\ frames' = Advance]_vars

\* [Const(2.0), Const(0.1), Store, ...] has stored 0.1 at address 2 over a
\* stack that held a value below the operands
C16_Witness ==
    /\ status = "running" /\ Len(frames) = 1
    /\ Top.code = <<Const(F2), Const(F0_1), Store, Const(F2), Load>>
    /\ Top.pc = 4
    /\ load(memory, 2) = F0_1
    /\ stack = <<F3>>

\* C17: the instructions of a sequence run in order, one at a time.  The
\* position of an activation moves by one instruction at a time and never
\* back; only the innermost activation moves, so a caller stays at its
\* CallFunc while the callee and everything nested in it run, and goes past it
\* only once the callee has returned; an activation starts at its first
\* instruction and returns only from past its last.
C17_InOrder ==
    [][/\ \A k \in 1..Len(frames) :
             k <= Len(frames')
                => /\ frames'[k].code = frames[k].code
                   /\ frames'[k].pc \in {frames[k].pc, frames[k].pc + 1}
                   /\ k < Len(frames) => frames'[k].pc = frames[k].pc
       /\ Len(frames') > Len(frames)
             => /\ Len(frames') = Len(frames) + 1
                /\ frames'[Len(frames')].pc = 1
                /\ frames # <<>> => At("CallFunc")
       /\ Len(frames') < Len(frames)
             => /\ Len(frames') = Len(frames) - 1
                /\ Top.pc = Len(Top.code) + 1
                /\ ctl = "exec"
       /\ (frames # <<>> /\ Len(frames') = Len(frames)
             /\ frames'[Len(frames)].pc # Top.pc)
             => /\ Top.pc <= Len(Top.code)
                /\ Cur.op = "CallFunc" <=> ctl = "ret"
       /\ (ctl = "exec" /\ ctl' = "ret") => Len(frames') = Len(frames) - 1]_vars

\* execute has returned from [Const(0.1), Const(2.0), Const(3.0), CallFunc(4),
\* Mul], whose callee calls functions[1] in turn, leaving 0.1 * (2.0 + 3.0)
C17_Witness ==
    /\ status = "idle" /\ frames = <<>>
    /\ lastOp.op = "execute"
    /\ lastOp.code = <<Const(F0_1), Const(F2), Const(F3), CallFunc(4), Mul>>
    /\ stack = <<FMul(F0_1, FAdd(F2, F3))>>

\* C18: in an activation made by a call with n arguments, LocalGet(i) with
\* i >= n panics (unbound local): it pushes nothing and the activation does
\* not go on.
C18_UnboundIndexFaults ==
    [][(At("LocalGet") /\ Top.locals.some /\ Cur.idx >= Len(Top.args))
          => /\ status' = "fault" /\ fault' = "UnboundLocal"
             /\ stack' = stack
             /\ frames' = frames]_vars

\* functions[6], called by CallFunc with its one argument, has panicked at
\* its LocalGet(1)
C18_Witness ==
    /\ status = "fault" /\ fault = "UnboundLocal"
    /\ Len(frames) = 2 /\ Top.locals.some
    /\ Top.code = <<LocalGet(1)>> /\ Top.pc = 1
    /\ Len(Top.args) = 1
    /\ stack = <<>>

\* the indices of the functions that the CallFunc instructions of code name
Callees(code) ==
    {code[k].idx : k \in {j \in 1..Len(code) :
                             code[j].op = "CallFunc" /\ code[j].idx < Len(functions)}}

\* the functions reached from those of S through at most n further calls
RECURSIVE ReachedFrom(_, _)
ReachedFrom(S, n) ==
    IF n = 0 THEN S
    ELSE ReachedFrom(S \cup UNION {Callees(functions[i + 1].code) : i \in S}, n - 1)

\* functions[i] reaches itself through a chain of CallFunc instructions
OnCycle(i) == i \in ReachedFrom(Callees(functions[i + 1].code), Len(functions))

\* the function, if any, and the functions its body reaches, of the host's run
RunFunctions ==
    IF lastOp.op = "execute" THEN ReachedFrom(Callees(lastOp.code), Len(functions))
    ELSE IF lastOp.op = "call" THEN ReachedFrom({lastOp.idx}, Len(functions))
    ELSE {}

\* C19: a run of execute or call that reaches no function on a call cycle
\* eventually stops, by completing or by panicking.
C19_AcyclicRunsStop ==
    (status = "running" /\ \A i \in RunFunctions : ~OnCycle(i)) ~> (status # "running")

\* execute has completed a run that nests calls two deep, with no cycle
C19_Witness ==
    /\ status = "idle" /\ frames = <<>>
    /\ lastOp.op = "execute"
    /\ 4 \in RunFunctions /\ 1 \in RunFunctions
    /\ \A i \in RunFunctions : ~OnCycle(i)
    /\ OnCycle(5)
    /\ Len(stack) = 1

\* the values the step about to be taken pops
Pops ==
    IF AtInstr THEN Needs(Cur)
    ELSE IF AtEnd /\ Top.caller # "execute" /\ Top.func.returns THEN 1
    ELSE 0

\* the step leaves the n oldest values of the stack as they are
KeepsBelow(n) == Len(stack') >= n /\ SubSeq(stack', 1, n) = SubSeq(stack, 1, n)

\* C20: the values that were on the stack below the arguments of a CallFunc
\* are never consumed by the call: no step of the call removes or changes
\* one, and the value a returning call returns was pushed during the call.
C20_CallKeepsBelow ==
    [][/\ \A k \in 1..Len(frames) :
             frames[k].caller = "CallFunc" => KeepsBelow(frames[k].base)
       /\ (AtEnd /\ Top.caller = "CallFunc" /\ Top.func.returns /\ stack # <<>>)
             => Len(stack) > Top.base]_vars

\* C20, amended: a step of a call leaves the values below the call's arguments
\* as they are whenever the values it pops all lie above them.
C20_KeepsBelowUnlessShort ==
    [][\A k \in 1..Len(frames) :
          (frames[k].caller = "CallFunc" /\ Len(stack) - Pops >= frames[k].base)
             => KeepsBelow(frames[k].base)]_vars

\* update_position, called over the address pushed by tests::example_functions,
\* has multiplied, added and returned, and the address is still below its result
C20_Witness ==
    /\ status = "running" /\ ctl = "exec" /\ Len(frames) = 1
    /\ Top.code = Scenario3 /\ Top.pc = 8
    /\ Len(stack) = 2
    /\ stack[1] = F12

====
